---- MODULE Spec2Model ----
(***************************************************************************)
(* faust.serializers.registry.Registry: the serializer dispatch layer.     *)
(*                                                                         *)
(* The four public coroutines (loads_key, loads_value, dumps_key,          *)
(* dumps_value) run on one asyncio event loop: a coroutine runs without    *)
(* interruption up to its single `await` (the call into an external        *)
(* serializer), where other coroutines may run, and is resumed when the    *)
(* external call ends.  The codec table, the model classes and the         *)
(* external serializer are collaborators outside registry.py; what they    *)
(* return is modelled after the specification and, where it is open, as a  *)
(* nondeterministic choice.                                                *)
(***************************************************************************)
EXTENDS Integers, Sequences, FiniteSets, Bags, TLC

VARIABLES key_serializer, value_serializer, override, codecs, built, pending, last

vars == <<key_serializer, value_serializer, override, codecs, built, pending, last>>

\* ------------------------------------------------------------------ bounds
\* Number of coroutines that may be suspended in an external call at once.
NumTasks == 2
\* Cap on the number of external serializer instances ever constructed.
MaxInstances == 2

Tasks == 1..NumTasks

\* ------------------------------------------------------- serializer names
\* A CodecArg is None, a codec name, or a Codec object.
None == "None"
CodecObj == "<Codec>"

\* Registry.override_classes: the names served by an external serializer.
override_classes == [n \in {"avro"} |-> "faust.serializers.avro.faust:AvroSerializer"]

\* Python truthiness of a CodecArg (`if serializer:`, `a or b`).
Truthy(name) == name \notin {None, ""}

\* isinstance(name, str)
IsStr(name) == name \notin {None, CodecObj}

\* ------------------------------------------------------------------ values
\* Every Python value the operations see is a record of one shape.
Value(tag, codec, data, typ, req) ==
    [tag |-> tag, codec |-> codec, data |-> data, typ |-> typ, req |-> req]

\* Python None as a key or value.
NoneVal == Value("none", "-", "-", "-", "-")
\* An untyped decoded value (a dict, a number).
Val(d) == Value("val", "-", d, "-", "-")
\* A Python str.
Str(d) == Value("str", "-", d, "-", "-")
\* Raw bytes: payload d in the encoding of codec c.
Bytes(c, d) == Value("bytes", c, d, "-", "-")
\* A model instance typ(obj, req=req); obj.codec is kept when obj is raw bytes.
Model(t, obj, r) == Value("model", obj.codec, obj.data, t, r)

\* The outcome of a call into a collaborator: a value or a raised exception.
Ok(v) == [ok |-> TRUE, v |-> v, e |-> "-"]
Fail(e) == [ok |-> FALSE, v |-> NoneVal, e |-> e]

\* ------------------------------------------------------------- model types
NoType == "NoType"
Types == {"Tnone", "Tjson", "Ts", "Tavro"}

\* typ._options.serializer: the serializer name a model class declares.
Declared(t) ==
    CASE t = "Tjson" -> "json"
      [] t = "Ts" -> "s"
      [] t = "Tavro" -> "avro"
      [] OTHER -> None

\* isinstance(v, ModelT)
IsModel(v) == v.tag = "model"

\* typ(obj) / typ(obj, req=request): the model's constructor rejects a
\* payload that does not fit its fields and an object that is no payload.
MakeModel(t, obj, r) ==
    IF obj.tag \in {"val", "bytes", "str"} /\ obj.data # "bad"
    THEN Ok(Model(t, obj, r))
    ELSE Fail("ModelError")

\* ModelT.dumps(): the model's own encoding, in its declared serializer.
SelfEncodeOutcomes(m) == {Ok(Bytes(Declared(m.typ), m.data)), Fail("SelfEncodeError")}

\* ------------------------------------------------------------- codec table
\* codecs.loads(codec, s): the codec named (or given) decodes its own bytes;
\* no codec means the bytes pass through; an unknown name is an error.
CodecLoads(name, v) ==
    IF ~Truthy(name) THEN Ok(v)
    ELSE IF IsStr(name) /\ name \notin codecs THEN Fail("UnknownCodec")
    ELSE IF v.tag = "bytes" /\ v.codec = name
         THEN Ok(IF v.data = "-" THEN NoneVal ELSE Val(v.data))
    ELSE Fail("Malformed")

\* codecs.dumps(codec, obj)
CodecDumps(name, v) ==
    IF ~Truthy(name) THEN Ok(v)
    ELSE IF IsStr(name) /\ name \notin codecs THEN Fail("UnknownCodec")
    ELSE IF v.tag \in {"val", "str", "none"} THEN Ok(Bytes(name, v.data))
    ELSE Fail("Unencodable")

\* faust.utils.compat.want_bytes: a str is encoded, anything else is returned.
want_bytes(v) == IF v.tag = "str" THEN Bytes("utf-8", v.data) ELSE v

\* ------------------------------------------------------ external serializer
\* symbol_by_name(cls)(registry): the constructor returns or raises.
CtorOutcomes == {"ok", "KeyError", "Error"}

\* Variant of Instance: the class is constructed without the Registry.
Instance_detached(name, id) == [cls |-> override_classes[name], id |-> id, registry |-> "-"]

\* An instance, constructed with the Registry as its only argument.
Instance(name, id) == [cls |-> override_classes[name], id |-> id, registry |-> "self"]
NoInstance == [cls |-> "-", id |-> 0, registry |-> "-"]

\* await ser.loads(data)
ExtLoadsOutcomes == {Ok(Val("a")), Ok(Val("bad")), Fail("ExtError"), Fail("KeyError")}

\* await ser.dumps_key(topic, key) / ser.dumps_value(topic, value)
ExtDumpsOutcomes == {Ok(Bytes("avro", "a")), Fail("ExtError"), Fail("KeyError")}

\* ------------------------------------------------------- operation records
\* What was last seen of a public operation: a call that ran to its end or
\* to its await (resumed = FALSE: the arguments, what was resolved and
\* invoked), or a suspended call that was resumed and ran to its end
\* (resumed = TRUE: what its frame holds, and how it ended).
\*   name   the effective serializer name ("-" when none was looked at)
\*   res    how _get_serializer ended: hit, built, miss (KeyError for a name
\*          that is no external serializer), ctor_keyerror, ctor_error
\*   path   the transforms invoked, in order
\*   status awaiting, ok, KeyDecodeError, ValueDecodeError, raised
\*   fault  the failure of the transform invoked (codec table, model
\*          constructor, model dumps(), external call), "-" when it returned
\*   err    the failure that reached the caller, or that the decode error wraps
\*   src    loads_value only: the model whose dumps_value output is decoded
Unrecorded == Value("-", "-", "-", "-", "-")

Call(op, typ, arg, ser, req, src) ==
    [op |-> op, typ |-> typ, arg |-> arg, ser |-> ser, req |-> req, src |-> src,
     name |-> "-", res |-> "-", path |-> <<>>, inst |-> NoInstance,
     resumed |-> FALSE, status |-> "idle", value |-> NoneVal, fault |-> "-",
     err |-> "-"]

Idle == Call("-", "-", Unrecorded, "-", "-", Unrecorded)

Returned(c, v) == [c EXCEPT !.status = "ok", !.value = v]
Raised(c, kind, e) == [c EXCEPT !.status = kind, !.err = e]
Invoked(c, t) == [c EXCEPT !.path = Append(@, t)]
Faulted(c, e) == [c EXCEPT !.fault = e]

\* The frame of a coroutine suspended in `await ser.<op>(...)`: the locals
\* its continuation reads.
Frame(c) == [op |-> c.op, typ |-> c.typ, req |-> c.req, name |-> c.name, inst |-> c.inst]

\* The call a frame continues.
Continued(f) ==
    [Call(f.op, f.typ, Unrecorded, "-", f.req, Unrecorded)
        EXCEPT !.name = f.name, !.inst = f.inst, !.path = <<"ext">>, !.resumed = TRUE]

\* ------------------------------------------------- Registry._get_serializer
\* What one synchronous piece of a coroutine leaves behind: the call record
\* and the cache.
Step(rec, ov, b) == [rec |-> rec, override |-> ov, built |-> b]

Resolution(out, how, inst, ov, b) ==
    [out |-> out, how |-> how, inst |-> inst, override |-> ov, built |-> b]

\* Variant of get_serializer: the cache is written but never read.
get_serializer_uncached(name, c) ==
    IF ~IsStr(name) \/ name \notin DOMAIN override_classes
    THEN Resolution("KeyError", "miss", NoInstance, override, built)
    ELSE CASE c = "ok" ->
                LET ser == Instance(name, built + 1)
                IN  Resolution("ser", "built", ser,
                               [n \in DOMAIN override \cup {name} |->
                                   IF n = name THEN ser ELSE override[n]],
                               built + 1)
           [] c = "KeyError" ->
                Resolution("KeyError", "ctor_keyerror", NoInstance, override, built)
           [] OTHER ->
                Resolution("Error", "ctor_error", NoInstance, override, built)

\* Variant of get_serializer: a name that is no key of the table is cached
\* as having no instance.
get_serializer_negative_cache(name, c) ==
    IF ~IsStr(name) \/ name \notin DOMAIN override_classes
    THEN Resolution("KeyError", "miss", NoInstance,
                    [n \in DOMAIN override \cup {name} |->
                        IF n = name THEN NoInstance ELSE override[n]],
                    built)
    ELSE IF name \in DOMAIN override
    THEN Resolution("ser", "hit", override[name], override, built)
    ELSE CASE c = "ok" ->
                LET ser == Instance(name, built + 1)
                IN  Resolution("ser", "built", ser,
                               [n \in DOMAIN override \cup {name} |->
                                   IF n = name THEN ser ELSE override[n]],
                               built + 1)
           [] c = "KeyError" ->
                Resolution("KeyError", "ctor_keyerror", NoInstance, override, built)
           [] OTHER ->
                Resolution("Error", "ctor_error", NoInstance, override, built)

\* Variant of get_serializer: a hit takes the instance out of the cache.
get_serializer_evicting(name, c) ==
    IF ~IsStr(name) \/ name \notin DOMAIN override_classes
    THEN Resolution("KeyError", "miss", NoInstance, override, built)
    ELSE IF name \in DOMAIN override
    THEN Resolution("ser", "hit", override[name],
                    [n \in DOMAIN override \ {name} |-> override[n]], built)
    ELSE CASE c = "ok" ->
                LET ser == Instance(name, built + 1)
                IN  Resolution("ser", "built", ser,
                               [n \in DOMAIN override \cup {name} |->
                                   IF n = name THEN ser ELSE override[n]],
                               built + 1)
           [] c = "KeyError" ->
                Resolution("KeyError", "ctor_keyerror", NoInstance, override, built)
           [] OTHER ->
                Resolution("Error", "ctor_error", NoInstance, override, built)

\* _get_serializer(name), with c the outcome of the constructor should it
\* run.  out is "ser" (an instance is returned), "KeyError" or "Error".
get_serializer(name, c) ==
    IF ~IsStr(name)
    THEN Resolution("KeyError", "miss", NoInstance, override, built)
    ELSE IF name \in DOMAIN override
    THEN Resolution("ser", "hit", override[name], override, built)
    ELSE IF name \notin DOMAIN override_classes
    THEN Resolution("KeyError", "miss", NoInstance, override, built)
    ELSE CASE c = "ok" ->
                LET ser == Instance(name, built + 1)
                IN  Resolution("ser", "built", ser,
                               [n \in DOMAIN override \cup {name} |->
                                   IF n = name THEN ser ELSE override[n]],
                               built + 1)
           [] c = "KeyError" ->
                Resolution("KeyError", "ctor_keyerror", NoInstance, override, built)
           [] OTHER ->
                Resolution("Error", "ctor_error", NoInstance, override, built)

\* Whether _get_serializer(name) would run the constructor.
Constructs(name) == get_serializer(name, "ok").how = "built"

Resolved(call, serializer, g) ==
    [call EXCEPT !.name = serializer, !.res = g.how, !.inst = g.inst]

\* Variant of Awaiting: the external call is made but not awaited.
Awaiting_unawaited(call) == Returned(Invoked(call, "ext"), NoneVal)

\* else: ... await ser.<op>(...): the coroutine is suspended in the external call
Awaiting(call) == [Invoked(call, "ext") EXCEPT !.status = "awaiting"]

\* ------------------------------------------------------------- decode path
\* except Exception as exc: raise KeyDecodeError(str(exc))
key_decode_error(call, e) == Raised(call, "KeyDecodeError", e)

\* except Exception as exc: raise ValueDecodeError(str(exc))
value_decode_error(call, e) == Raised(call, "ValueDecodeError", e)

\* Variant of loads_key_finish: a KeyError is answered by the codec table.
loads_key_finish_fallback(call, decoded) ==
    IF ~decoded.ok
    THEN IF decoded.e = "KeyError"
         THEN Returned(Invoked(call, "codec"), NoneVal)
         ELSE key_decode_error(Faulted(call, decoded.e), decoded.e)
    ELSE LET m == MakeModel(call.typ, decoded.v, "-")
         IN  IF m.ok THEN Returned(call, m.v)
             ELSE key_decode_error(Faulted(call, m.e), m.e)

\* return cast(K, typ(obj)), inside the try
loads_key_finish(call, decoded) ==
    IF ~decoded.ok THEN key_decode_error(Faulted(call, decoded.e), decoded.e)
    ELSE LET m == MakeModel(call.typ, decoded.v, "-")
         IN  IF m.ok THEN Returned(call, m.v)
             ELSE key_decode_error(Faulted(call, m.e), m.e)

\* return cast(Event, typ(obj, req=request)), inside the try
loads_value_finish(call, decoded) ==
    IF ~decoded.ok THEN value_decode_error(Faulted(call, decoded.e), decoded.e)
    ELSE LET m == MakeModel(call.typ, decoded.v, call.req)
         IN  IF m.ok THEN Returned(call, m.v)
             ELSE value_decode_error(Faulted(call, m.e), m.e)

\* Variant of key_name: the value default is used for keys.
key_name_value_default(typ) ==
    IF Truthy(Declared(typ)) THEN Declared(typ) ELSE value_serializer

\* The effective name of a key decode: typ_serializer or self.key_serializer
key_name(typ) == IF Truthy(Declared(typ)) THEN Declared(typ) ELSE key_serializer

\* Variant of value_name: the Registry default wins over the declared name.
value_name_default_first(typ) ==
    IF Truthy(value_serializer) THEN value_serializer ELSE Declared(typ)

\* typ_serializer or self.value_serializer
value_name(typ) == IF Truthy(Declared(typ)) THEN Declared(typ) ELSE value_serializer

\* Variant of key_absent: `and` for `or`.
key_absent_both(typ, key) == key = NoneVal /\ typ = NoType

\* if key is None or typ is None
key_absent(typ, key) == key = NoneVal \/ typ = NoType

\* if message.value is None
value_absent(v) == v = NoneVal

\* loads_key(typ, key) up to its await or its end.
loads_key(typ, key, c) ==
    LET call == Call("loads_key", typ, key, "-", "-", Unrecorded)
    IN  IF key_absent(typ, key)
        THEN Step(Returned(call, key), override, built)
        ELSE LET serializer == key_name(typ)
                 g == get_serializer(serializer, c)
                 c1 == Resolved(call, serializer, g)
             IN  CASE g.out = "KeyError" ->
                        Step(loads_key_finish(Invoked(c1, "codec"),
                                              CodecLoads(serializer, key)),
                             g.override, g.built)
                   [] g.out = "Error" ->
                        Step(key_decode_error(c1, "CtorError"), g.override, g.built)
                   [] OTHER -> Step(Awaiting(c1), g.override, g.built)

\* loads_value(typ, key, message, request) up to its await or its end; v is
\* message.value.  With no type, typ._options raises inside the try.
loads_value(typ, v, req, src, c) ==
    LET call == Call("loads_value", typ, v, "-", req, src)
    IN  IF value_absent(v)
        THEN Step(Returned(call, NoneVal), override, built)
        ELSE IF typ = NoType
        THEN Step(value_decode_error(Faulted(call, "AttributeError"), "AttributeError"),
                  override, built)
        ELSE LET serializer == value_name(typ)
                 g == get_serializer(serializer, c)
                 c1 == Resolved(call, serializer, g)
             IN  CASE g.out = "KeyError" ->
                        Step(loads_value_finish(Invoked(c1, "codec"),
                                                CodecLoads(serializer, v)),
                             g.override, g.built)
                   [] g.out = "Error" ->
                        Step(value_decode_error(c1, "CtorError"), g.override, g.built)
                   [] OTHER -> Step(Awaiting(c1), g.override, g.built)

\* ------------------------------------------------------------- encode path
\* Variant of encode_raise: the failure is wrapped as on the decode path.
encode_raise_wrapped(call, e) == Raised(call, "ValueDecodeError", e)

\* An encode has no handler of its own: what a transform raises is raised.
encode_raise(call, e) == Raised(call, "raised", e)

\* return <transform>(...)
encode_finish(call, out) ==
    IF out.ok THEN Returned(call, out.v) ELSE encode_raise(Faulted(call, out.e), out.e)

\* Variant of encode_name: the Registry default stands in for no name.
encode_name_default(v, serializer) ==
    IF IsModel(v) THEN Declared(v.typ)
    ELSE IF Truthy(serializer) THEN serializer ELSE value_serializer

\* Variant of encode_name: a serializer argument wins over the model's name.
encode_name_override_first(v, serializer) ==
    IF IsModel(v) /\ ~Truthy(serializer) THEN Declared(v.typ) ELSE serializer

\* is_model, serializer = True, key._options.serializer
encode_name(v, serializer) == IF IsModel(v) THEN Declared(v.typ) ELSE serializer

\* Variant of stateless_encode: the codec table is used for models too.
stateless_encode_codec(call, v, serializer, so) ==
    encode_finish(Invoked(call, "codec"), CodecDumps(serializer, v))

\* except KeyError: the model encodes itself, anything else goes through
\* the codec table.
stateless_encode(call, v, serializer, so) ==
    IF IsModel(v)
    THEN encode_finish(Invoked(call, "self"), so)
    ELSE encode_finish(Invoked(call, "codec"), CodecDumps(serializer, v))

\* The part dumps_key and dumps_value share: `if serializer:` and its body.
\* so is the outcome of the model's dumps() should it run.
dumps_named(call, v, serializer, c, so) ==
    LET g == get_serializer(serializer, c)
        c1 == Resolved(call, serializer, g)
    IN  CASE g.out = "KeyError" ->
               Step(stateless_encode(c1, v, serializer, so), g.override, g.built)
          [] g.out = "Error" -> Step(encode_raise(c1, "CtorError"), g.override, g.built)
          [] OTHER -> Step(Awaiting(c1), g.override, g.built)

\* Variant of key_passthrough: the key is returned as dumps_value returns a
\* value, uncoerced.
key_passthrough_cast(call, key) == Returned(call, key)

\* return want_bytes(cast(bytes, key)) if key is not None else None
key_passthrough(call, key) ==
    IF key # NoneVal
    THEN Returned(Invoked(call, "want_bytes"), want_bytes(key))
    ELSE Returned(call, NoneVal)

\* dumps_key(topic, key, serializer) up to its await or its end.  The topic
\* is only handed on to the external serializer.
dumps_key(key, ser_arg, c, so) ==
    LET serializer == encode_name(key, ser_arg)
        call == [Call("dumps_key", "-", key, ser_arg, "-", Unrecorded)
                     EXCEPT !.name = serializer]
    IN  IF Truthy(serializer)
        THEN dumps_named(call, key, serializer, c, so)
        ELSE Step(key_passthrough(call, key), override, built)

\* dumps_value(topic, value, serializer) up to its await or its end.
dumps_value(value, ser_arg, c, so) ==
    LET serializer == encode_name(value, ser_arg)
        call == [Call("dumps_value", "-", value, ser_arg, "-", Unrecorded)
                     EXCEPT !.name = serializer]
    IN  IF Truthy(serializer)
        THEN dumps_named(call, value, serializer, c, so)
        ELSE Step(Returned(call, value), override, built)

\* ------------------------------------------------------------------ inputs
\* Raw keys and message values handed to the decode operations.
RawInputs ==
    {NoneVal, Bytes("json", "a"), Bytes("json", "bad"), Bytes("avro", "a"),
     Bytes("junk", "a")}

\* Keys and values handed to the encode operations.
EncodeInputs ==
    {NoneVal, Val("a"), Str("a"), Bytes("json", "a")}
        \cup {Model(t, Val("a"), "-") : t \in Types}

\* The serializer argument of the encode operations.
SerializerArgs == {None, "json", "s", "avro", CodecObj}

Requests == {"r1"}

\* Registry(key_serializer, value_serializer) and the codecs registered.
Configs ==
    {<<None, "json", {"json"}>>,
     <<"json", "json", {"json", "avro"}>>,
     <<"avro", "avro", {"json"}>>}

\* The constructor's outcomes that matter to a call resolving name.
CtorChoices(name) == IF Constructs(name) THEN CtorOutcomes ELSE {"ok"}

\* The outcomes of v.dumps() that matter to an encode of v.
SelfChoices(v) ==
    IF IsModel(v) /\ Truthy(Declared(v.typ))
    THEN SelfEncodeOutcomes(v) ELSE {Fail("SelfEncodeError")}

\* ------------------------------------------------------------------ actions
Init ==
    /\ \E cfg \in Configs :
          /\ key_serializer = cfg[1]
          /\ value_serializer = cfg[2]
          /\ codecs = cfg[3]
    /\ override = [n \in {} |-> NoInstance]
    /\ built = 0
    /\ pending = EmptyBag
    /\ last = Idle

\* A coroutine is started and runs up to its await (it is then pending) or
\* to its end.
Run(s) ==
    /\ BagCardinality(pending) < NumTasks
    /\ s.built <= MaxInstances
    /\ override' = s.override
    /\ built' = s.built
    /\ last' = s.rec
    /\ pending' = IF s.rec.status = "awaiting"
                  THEN pending (+) SetToBag({Frame(s.rec)})
                  ELSE pending
    /\ UNCHANGED <<key_serializer, value_serializer, codecs>>

\* The external call of the coroutine with frame f ends and the coroutine
\* runs to its end.
Resume(f, rec) ==
    /\ last' = rec
    /\ pending' = pending (-) SetToBag({f})
    /\ UNCHANGED <<key_serializer, value_serializer, codecs, override, built>>

LoadsKey ==
    \E typ \in Types \cup {NoType}, key \in RawInputs :
        \E c \in CtorChoices(key_name(typ)) :
            Run(loads_key(typ, key, c))

LoadsValue ==
    \E typ \in Types \cup {NoType}, v \in RawInputs, req \in Requests :
        \E c \in CtorChoices(value_name(typ)) :
            Run(loads_value(typ, v, req, Unrecorded, c))

\* loads_value of what the last dumps_value returned for a model, with the
\* model's own type.
LoadsValueOfDumped ==
    /\ last.op = "dumps_value" /\ last.status = "ok" /\ IsModel(last.arg)
    /\ \E req \in Requests, c \in CtorChoices(value_name(last.arg.typ)) :
          Run(loads_value(last.arg.typ, last.value, req, last.arg, c))

DumpsKey ==
    \E key \in EncodeInputs, ser_arg \in SerializerArgs :
        \E c \in CtorChoices(encode_name(key, ser_arg)), so \in SelfChoices(key) :
            Run(dumps_key(key, ser_arg, c, so))

DumpsValue ==
    \E value \in EncodeInputs, ser_arg \in SerializerArgs :
        \E c \in CtorChoices(encode_name(value, ser_arg)), so \in SelfChoices(value) :
            Run(dumps_value(value, ser_arg, c, so))

\* obj = await ser.loads(key); return cast(K, typ(obj))
LoadsKeyResume ==
    \E f \in BagToSet(pending), out \in ExtLoadsOutcomes :
        /\ f.op = "loads_key"
        /\ Resume(f, loads_key_finish(Continued(f), out))

\* obj = await ser.loads(message.value); return cast(Event, typ(obj, req=request))
LoadsValueResume ==
    \E f \in BagToSet(pending), out \in ExtLoadsOutcomes :
        /\ f.op = "loads_value"
        /\ Resume(f, loads_value_finish(Continued(f), out))

\* return await ser.dumps_key(topic, key)
DumpsKeyResume ==
    \E f \in BagToSet(pending), out \in ExtDumpsOutcomes :
        /\ f.op = "dumps_key"
        /\ Resume(f, encode_finish(Continued(f), out))

\* return await ser.dumps_value(topic, value)
DumpsValueResume ==
    \E f \in BagToSet(pending), out \in ExtDumpsOutcomes :
        /\ f.op = "dumps_value"
        /\ Resume(f, encode_finish(Continued(f), out))

Next ==
    \/ LoadsKey
    \/ LoadsValue
    \/ LoadsValueOfDumped
    \/ DumpsKey
    \/ DumpsValue
    \/ LoadsKeyResume
    \/ LoadsValueResume
    \/ DumpsKeyResume
    \/ DumpsValueResume

Spec == Init /\ [][Next]_vars

\* ------------------------------------------------------------ properties
Decodes == {"loads_key", "loads_value"}
Encodes == {"dumps_key", "dumps_value"}
External == DOMAIN override_classes

\* `last` is a call that just ran up to its await or its end.
IsCall(r) == r.status # "idle" /\ ~r.resumed
\* The Registry default an operation would use.
DefaultOf(op) == IF op \in {"loads_key", "dumps_key"} THEN key_serializer ELSE value_serializer
\* The transforms, as opposed to the coercion of a key.
Transforms == {"codec", "self", "ext"}
TransformsOf(r) == {r.path[i] : i \in DOMAIN r.path} \cap Transforms

\* As many instances were ever constructed as the cache holds names, and
\* every call that resolved to an external serializer (the last one, and
\* every suspended one) holds the very instance the cache holds.
C1_CachedOnce ==
    /\ built = Cardinality(DOMAIN override)
    /\ \A f \in BagToSet(pending) :
          f.name \in DOMAIN override /\ f.inst = override[f.name]
    /\ last.inst # NoInstance =>
          last.name \in DOMAIN override /\ last.inst = override[last.name]

\* A resolution that constructs does so for a name not cached before, and a
\* resolution of a cached name returns the cached instance and constructs
\* nothing.
C1_ConstructsOnlyOnMiss ==
    IsCall(last') =>
       /\ last'.res = "built" =>
             last'.name \notin DOMAIN override /\ built' = built + 1
       /\ last'.res = "hit" =>
             /\ last'.name \in DOMAIN override
             /\ last'.inst = override[last'.name]
             /\ built' = built /\ override' = override
       /\ last'.res \notin {"built", "hit"} => built' = built /\ override' = override

\* C1: under every interleaving of the four operations on one Registry each
\* name of the external-serializer table is constructed at most once: the
\* first resolution constructs one instance and stores it, every later one
\* returns that instance and constructs nothing.
C1_ConstructedAtMostOnce == []C1_CachedOnce /\ [][C1_ConstructsOnlyOnMiss]_vars

\* A cached name is resolved again while two other calls are suspended in
\* the external serializer.
C1_Witness ==
    /\ last.res = "hit" /\ IsCall(last)
    /\ BagCardinality(pending) = 2
    /\ Cardinality(BagToSet(pending)) = 2

\* C2 as stated: in all four operations the effective name is the declared
\* name if set, otherwise the Registry default (encodes taken without a
\* serializer argument).
C2_DefaultInEveryOperation ==
    (IsCall(last) /\ last.name # "-" /\ (last.op \in Encodes => last.ser = None)) =>
        LET declared == IF last.op \in Decodes THEN Declared(last.typ)
                        ELSE IF IsModel(last.arg) THEN Declared(last.arg.typ)
                        ELSE None
        IN  last.name = IF Truthy(declared) THEN declared ELSE DefaultOf(last.op)

\* C2 amended: a decode takes the declared name of the type if set and
\* otherwise the Registry default of its kind; an encode takes the declared
\* name of a model (set or not) and otherwise the serializer argument, never
\* the Registry default; an encode returns its argument without any
\* transform exactly when that name is not set, and a decode under no name
\* wraps the raw bytes.
C2_Precedence ==
    (IsCall(last) /\ last.name # "-") =>
       /\ last.op = "loads_key" =>
             last.name = IF Declared(last.typ) \in {None, ""}
                         THEN key_serializer ELSE Declared(last.typ)
       /\ last.op = "loads_value" =>
             last.name = IF Declared(last.typ) \in {None, ""}
                         THEN value_serializer ELSE Declared(last.typ)
       /\ last.op \in Encodes =>
             /\ last.name = IF last.arg.tag = "model"
                            THEN Declared(last.arg.typ) ELSE last.ser
             /\ last.name \in {None, ""} <=>
                   (last.status = "ok" /\ TransformsOf(last) = {}
                       /\ last.value = IF last.op = "dumps_key"
                                       THEN want_bytes(last.arg) ELSE last.arg)
       /\ (last.op \in Decodes /\ last.name \in {None, ""} /\ last.status = "ok") =>
             last.value = Model(last.typ, last.arg, last.req)

\* A model that declares no serializer is encoded under a Registry whose
\* default is "json", with a serializer argument: no name is in effect.
C2_Witness ==
    /\ IsCall(last) /\ last.op = "dumps_value" /\ last.status = "ok"
    /\ IsModel(last.arg) /\ last.arg.typ = "Tnone"
    /\ last.ser = "json" /\ value_serializer = "json"
    /\ last.name = None

\* C3: a decode of a present key (value) in which any step fails ends in
\* KeyDecodeError (ValueDecodeError), and a decode ends in no other error.
C3_DecodeErrorsNormalized ==
    (last.op \in Decodes /\ last.status # "idle") =>
        LET kind == IF last.op = "loads_key" THEN "KeyDecodeError" ELSE "ValueDecodeError"
        IN  /\ last.status \in {"ok", "awaiting", kind}
            /\ (last.fault # "-" \/ last.res \in {"ctor_keyerror", "ctor_error"}) =>
                  last.status = kind

\* A decode of an absent key or value, or of a key without type, as a step.
C4_AbsentStep ==
    /\ (IsCall(last') /\ last'.op = "loads_key" /\ last'.arg = NoneVal) =>
          last'.status = "ok" /\ last'.value = NoneVal
    /\ (IsCall(last') /\ last'.op = "loads_key" /\ last'.typ = NoType) =>
          last'.status = "ok" /\ last'.value = last'.arg
    /\ (IsCall(last') /\ last'.op = "loads_value" /\ last'.arg = NoneVal) =>
          last'.status = "ok" /\ last'.value = NoneVal
    /\ (IsCall(last') /\ last'.op \in Decodes
            /\ (last'.arg = NoneVal \/ (last'.op = "loads_key" /\ last'.typ = NoType))) =>
          /\ last'.path = <<>> /\ last'.res = "-" /\ last'.fault = "-"
          /\ override' = override /\ built' = built /\ pending' = pending

\* C4: loads_key of no key returns None, loads_key with no type returns the
\* key, loads_value of a message without value returns None: no error, no
\* resolution, no transform, and the cache as it was.
C4_AbsencePropagates == [][C4_AbsentStep]_vars

\* A present key is decoded with no type while a serializer is cached.
C4_Witness ==
    /\ IsCall(last) /\ last.op = "loads_key" /\ last.typ = NoType
    /\ last.arg = Bytes("json", "a") /\ last.value = Bytes("json", "a")
    /\ DOMAIN override # {}

\* C5: what dumps_value returns for a model whose name is no external
\* serializer is decoded by loads_value, with the model's type, to the model
\* with the request attached.
C5_RoundTrip ==
    (last.op = "loads_value" /\ last.status # "idle" /\ last.src # Unrecorded
        /\ Declared(last.src.typ) \notin External
        /\ (IF Truthy(Declared(last.src.typ)) THEN Declared(last.src.typ)
            ELSE value_serializer) \notin External) =>
        /\ last.status = "ok"
        /\ last.value = Model(last.typ, Val(last.src.data), last.req)

\* C6: an encode of a model whose declared name is set and is no external
\* serializer invokes the model's dumps() and nothing else: it returns what
\* dumps() returns and raises only what dumps() raises, whether or not the
\* codec table knows the name.
C6_SelfEncodeFallback ==
    (IsCall(last) /\ last.op \in Encodes /\ last.arg.tag = "model"
        /\ Declared(last.arg.typ) \notin {None, ""}
        /\ Declared(last.arg.typ) \notin External) =>
        /\ last.path = <<"self">>
        /\ last.res = "miss"
        /\ last.status \in {"ok", "raised"}
        /\ last.status = "ok" =>
              last.fault = "-" /\ last.value = Bytes(Declared(last.arg.typ), last.arg.data)
        /\ last.status = "raised" => last.err = "SelfEncodeError"

\* A model naming a codec the table does not know is encoded by its dumps().
C6_Witness ==
    /\ IsCall(last) /\ last.op = "dumps_key" /\ last.status = "ok"
    /\ last.arg.tag = "model" /\ last.arg.typ = "Ts" /\ "s" \notin codecs
    /\ last.value = Bytes("s", "a")

\* dumps_value of a value that is no model, without argument, as a step.
C7_Step ==
    (IsCall(last') /\ last'.op = "dumps_value" /\ last'.arg.tag # "model"
        /\ last'.ser = None) =>
        /\ last'.status = "ok" /\ last'.value = last'.arg
        /\ last'.path = <<>> /\ last'.res = "-" /\ last'.fault = "-"
        /\ override' = override /\ built' = built /\ pending' = pending

\* C7: dumps_value of a value that is no model, without serializer argument,
\* returns the value itself under every Registry default: no resolution, no
\* transform, and the cache as it was.
C7_UntypedValuePassesThrough == [][C7_Step]_vars

\* An untyped value is encoded under the default "json" and comes back as is.
C7_Witness ==
    /\ IsCall(last) /\ last.op = "dumps_value" /\ last.arg = Val("a")
    /\ last.ser = None /\ value_serializer = "json" /\ last.value = Val("a")

\* C8: loads_key of a present key with a type that declares no serializer
\* decodes under key_serializer, with a type that declares one under that
\* name; when the name is no external serializer the codec table decodes and
\* the result is the type constructed from what it decoded.
C8_KeyDecode ==
    (last.op = "loads_key" /\ last.status # "idle"
        /\ (last.resumed \/ (last.arg # NoneVal /\ last.typ # NoType))) =>
        /\ last.name = IF Declared(last.typ) \in {None, ""}
                       THEN key_serializer ELSE Declared(last.typ)
        /\ (~last.resumed /\ last.name \notin External) =>
              /\ last.path = <<"codec">>
              /\ last.status = "ok" =>
                    last.value = IF last.name \in {None, ""}
                                 THEN Model(last.typ, last.arg, "-")
                                 ELSE Model(last.typ, Val(last.arg.data), "-")
              /\ (last.name \notin {None, ""} /\ last.arg.codec # last.name) =>
                    last.status = "KeyDecodeError"
        /\ last.status = "ok" => last.value.tag = "model" /\ last.value.typ = last.typ

\* A key of a type without serializer is decoded with the default "json".
C8_Witness ==
    /\ IsCall(last) /\ last.op = "loads_key" /\ last.typ = "Tnone"
    /\ key_serializer = "json" /\ value_serializer = "json" /\ last.name = "json"
    /\ last.status = "ok" /\ last.value = Model("Tnone", Val("a"), "-")

\* C9: an encode never ends in a decode error, and a failure of the codec
\* table, of the model's dumps() or of the external serializer's call is the
\* failure the caller gets.
C9_EncodeFailuresPropagate ==
    (last.op \in Encodes /\ last.status # "idle") =>
        /\ last.status \in {"ok", "awaiting", "raised"}
        /\ last.fault # "-" => last.status = "raised" /\ last.err = last.fault
        /\ last.status = "ok" => last.fault = "-"

\* The external serializer's dumps_value raises KeyError and the caller of
\* dumps_value gets it.
C9_Witness ==
    /\ last.op = "dumps_value" /\ last.resumed
    /\ last.status = "raised" /\ last.err = "KeyError"

\* An encode of a model, as a step: the same call with any other serializer
\* argument has the same outcome from the state the step started in.
C10_Step ==
    (IsCall(last') /\ last'.op \in Encodes /\ last'.arg.tag = "model") =>
        /\ last'.name = Declared(last'.arg.typ)
        /\ \A other \in SerializerArgs :
              \E c \in CtorOutcomes, so \in SelfEncodeOutcomes(last'.arg) :
                 (IF last'.op = "dumps_key"
                  THEN dumps_key(last'.arg, other, c, so)
                  ELSE dumps_value(last'.arg, other, c, so))
                    = Step([last' EXCEPT !.ser = other], override', built')

\* C10: an encode of a model does not depend on the serializer argument: the
\* name is the model's declared name, and with any other argument the same
\* call, from the same Registry state, ends the same way and leaves the same
\* cache.
C10_ModelIgnoresOverride == [][C10_Step]_vars

\* A model declaring "json" is encoded with the argument "avro": by itself.
C10_Witness ==
    /\ IsCall(last) /\ last.op = "dumps_key" /\ last.arg.tag = "model"
    /\ last.arg.typ = "Tjson" /\ last.ser = "avro"
    /\ last.path = <<"self">> /\ last.status = "ok"

\* C11: dumps_key with no serializer name in effect (no argument and no
\* model, or a model declaring none) returns None for no key and otherwise
\* the key coerced to bytes (a str is encoded, bytes stay as they are); no
\* resolution, no codec, no dumps(), no external serializer.
C11_KeyCoerced ==
    (IsCall(last) /\ last.op = "dumps_key"
        /\ (IF last.arg.tag = "model" THEN Declared(last.arg.typ) ELSE last.ser)
              \in {None, ""}) =>
        /\ last.status = "ok" /\ last.fault = "-"
        /\ last.res = "-" /\ TransformsOf(last) = {}
        /\ last.value = IF last.arg.tag = "str"
                        THEN Bytes("utf-8", last.arg.data) ELSE last.arg

\* A str key is encoded without serializer and comes back as bytes.
C11_Witness ==
    /\ IsCall(last) /\ last.op = "dumps_key" /\ last.ser = None
    /\ last.arg = Str("a") /\ last.value = Bytes("utf-8", "a")

\* A step changes nothing of the Registry, or adds to the cache one name of
\* the external-serializer table that it did not hold.
C12_Step ==
    /\ key_serializer' = key_serializer
    /\ value_serializer' = value_serializer
    /\ \/ override' = override
       \/ \E n \in DOMAIN override_classes \ DOMAIN override :
             /\ DOMAIN override' = DOMAIN override \cup {n}
             /\ \A m \in DOMAIN override : override'[m] = override[m]

\* C12: over any sequence of the four operations, ending well or not, the
\* Registry changes only by a cache entry added for a name not cached
\* before: key_serializer and value_serializer stay as constructed and no
\* entry is removed or replaced.
C12_OnlyCacheInsertions == [][C12_Step]_vars

\* A decode fails on a Registry whose cache holds an entry.
C12_Witness ==
    /\ last.status \in {"KeyDecodeError", "ValueDecodeError"}
    /\ last.res = "ctor_error" \/ last.fault # "-"
    /\ DOMAIN override # {}

\* Another call observes a miss for the name n and constructs an instance.
C13_SecondMiss(n) ==
    Next /\ IsCall(last') /\ last'.name = n /\ last'.res = "built"

\* C13 as stated: while a call that observed a miss for an external name and
\* constructed its instance is suspended, another call on the same Registry
\* can observe a miss for that name too and construct a second instance,
\* replacing the cached one.
C13_RacePossible ==
    \A f \in BagToSet(pending) :
        (BagCardinality(pending) < NumTasks /\ built < MaxInstances) =>
            ENABLED C13_SecondMiss(f.name)

\* A call that resolves a name on which other calls are suspended observes
\* a hit, gets the instance they hold, and leaves the cache as it was.
C13_Step ==
    (IsCall(last') /\ last'.res # "-"
        /\ \E f \in BagToSet(pending) : f.name = last'.name) =>
        /\ last'.res = "hit"
        /\ override' = override /\ built' = built
        /\ \A f \in BagToSet(pending) :
              f.name = last'.name => f.inst = last'.inst

\* C13: with concurrent operations on one Registry, a call that resolves a
\* name while another call on that name is suspended in the external
\* serializer observes a cache hit and shares its instance: no second
\* instance is constructed and no cache entry is overwritten.
C13_NoSecondConstruction == [][C13_Step]_vars

\* A call of another operation resolves the name a suspended call resolved.
C13_Witness ==
    /\ IsCall(last) /\ last.res = "hit" /\ last.status = "awaiting"
    /\ \E f \in BagToSet(pending) :
          f.name = last.name /\ f.inst = last.inst /\ f.op # last.op

\* A call is suspended exactly when its name resolved to an external
\* serializer, with the instance it awaits in the cache; a call on another
\* path has ended; a resumed call was suspended there and is not suspended
\* again.
C14_Suspension ==
    /\ IsCall(last) =>
          /\ last.status = "awaiting" <=> last.res \in {"hit", "built"}
          /\ last.status = "awaiting" =>
                /\ last.path = <<"ext">>
                /\ last.name \in DOMAIN override
                /\ override[last.name] = last.inst
                /\ Frame(last) \in BagToSet(pending)
          /\ last.status # "awaiting" => "ext" \notin TransformsOf(last)
    /\ last.resumed => last.status # "awaiting" /\ last.path = <<"ext">>

\* A call that is not suspended leaves the suspended calls as they are, a
\* suspended one joins them, and the end of one changes no cache.
C14_Step ==
    /\ (IsCall(last') /\ last'.status # "awaiting") => pending' = pending
    /\ (IsCall(last') /\ last'.status = "awaiting") =>
          pending' = pending (+) SetToBag({Frame(last')})
    /\ last'.resumed =>
          /\ override' = override /\ built' = built
          /\ BagCardinality(pending') = BagCardinality(pending) - 1

\* C14: an operation is suspended if and only if its effective name resolved
\* to an external serializer, once, at the external call, after resolution
\* and any cache insertion; an operation on the codec, self-encoding or
\* passthrough path runs to its end without yielding.
C14_SuspendsOnlyAtExternal == []C14_Suspension /\ [][C14_Step]_vars

\* A call is suspended at an instance it just constructed and cached.
C14_Witness ==
    /\ IsCall(last) /\ last.status = "awaiting" /\ last.res = "built"
    /\ last.op = "dumps_key"

\* A resolution of a name that is no string, or neither cached nor a key of
\* the external-serializer table, signals a miss and leaves the cache as it
\* was; the call takes the codec table or the model's own encoding and ends.
C15_Step ==
    (IsCall(last') /\ last'.res # "-"
        /\ (~IsStr(last'.name)
              \/ last'.name \notin DOMAIN override \cup DOMAIN override_classes)) =>
        /\ last'.res = "miss"
        /\ override' = override /\ built' = built
        /\ last'.inst = NoInstance
        /\ last'.status # "awaiting"
        /\ TransformsOf(last') \in {{"codec"}, {"self"}}
        /\ pending' = pending

\* C15: resolving a name that is not a string, or a string neither cached
\* nor in the external-serializer table, signals a lookup miss and leaves
\* the cache unchanged; the operation then takes the stateless path and
\* never an external serializer.
C15_MissIsStateless == [][C15_Step]_vars

\* A codec object given as the serializer argument is resolved and missed
\* while the cache holds an entry.
C15_Witness ==
    /\ IsCall(last) /\ last.res = "miss" /\ last.name = CodecObj
    /\ last.path = <<"codec">> /\ DOMAIN override # {}

\* C16: every key of the cache is a string of the external-serializer table,
\* and every cached instance is of the class the table names for that key
\* and was constructed with the owning Registry as its argument.
C16_CacheWellFormed ==
    \A n \in DOMAIN override :
        /\ n \notin {None, CodecObj}
        /\ n \in DOMAIN override_classes
        /\ override[n].cls = override_classes[n]
        /\ override[n].registry = "self"
        /\ override[n].id \in 1..built

\* The cache holds an entry while a call that got it is suspended.
C16_Witness ==
    /\ "avro" \in DOMAIN override
    /\ \E f \in BagToSet(pending) : f.inst = override["avro"]

\* An operation invokes at most one transform, once; the codec table or the
\* model's own encoding only in the call whose resolution raised KeyError;
\* a resumed call invoked the external serializer alone, and what that
\* raised ended the operation.
C17_OneTransform ==
    last.status # "idle" =>
        /\ Cardinality({i \in DOMAIN last.path : last.path[i] \in Transforms}) <= 1
        /\ TransformsOf(last) \cap {"codec", "self"} # {} =>
              ~last.resumed /\ last.res \in {"miss", "ctor_keyerror"}
        /\ "ext" \in TransformsOf(last) => last.res \in {"-", "hit", "built"}
        /\ last.resumed =>
              /\ last.path = <<"ext">>
              /\ last.status \in {"ok", "KeyDecodeError", "ValueDecodeError", "raised"}
              /\ last.fault # "-" => last.status # "ok" /\ last.err = last.fault

\* The end of a suspended call starts no call: the calls suspended are one
\* fewer.
C17_Step ==
    last'.resumed => BagCardinality(pending') = BagCardinality(pending) - 1

\* C17: an operation invokes at most one transform, at most once. The codec
\* table or self-encoding is taken only when name resolution itself raised
\* the lookup miss; a failure of the external serializer's call, a KeyError
\* included, is followed by no retry and no codec attempt.
C17_AtMostOneTransform == []C17_OneTransform /\ [][C17_Step]_vars

\* The external serializer's loads raises KeyError and the decode ends in
\* KeyDecodeError with nothing else invoked.
C17_Witness ==
    /\ last.resumed /\ last.op = "loads_key"
    /\ last.fault = "KeyError" /\ last.status = "KeyDecodeError"
    /\ last.path = <<"ext">>

\* C18: a call in which the constructor of an external serializer fails
\* inserts no entry for the name, takes neither the codec table nor
\* self-encoding but ends in the failure, and leaves the name to be
\* constructed by a later resolution.
C18_ConstructorFailureIsNoMiss ==
    (IsCall(last) /\ last.res \in {"ctor_keyerror", "ctor_error"}) =>
        /\ last.name \notin DOMAIN override
        /\ Constructs(last.name)
        /\ TransformsOf(last) = {}
        /\ last.status = IF last.op \in Encodes THEN "raised"
                         ELSE IF last.op = "loads_key" THEN "KeyDecodeError"
                         ELSE "ValueDecodeError"

====
